---- MODULE Spec2Model ----
\* A model of mic-pitch: the YIN pitch estimator and the RMS gate of
\* src/src/pitch.js, and the MicPitch class (start/stop/setDevice, the periodic
\* tick, smoothing, history, averaging, listeners) of src/unnamed/part_000.
EXTENDS Integers, Sequences, FiniteSets, TLC

\* ------------------------------------------------------------------------
\* JavaScript numbers.  A number is a pair <<n, d>> standing for n/d, kept in
\* lowest terms with d >= 0.  d = 0 is a non-finite value: <<1,0>> = Infinity,
\* <<-1,0>> = -Infinity, <<0,0>> = NaN.  null/undefined is the empty tuple.
\* Arithmetic is exact: the rounding of IEEE doubles, and of the Float32Array
\* that holds yin, is not modelled.
\* ------------------------------------------------------------------------
Null == <<>>

Abs(k) == IF k < 0 THEN -k ELSE k

Sign(k) == IF k < 0 THEN -1 ELSE IF k > 0 THEN 1 ELSE 0

RECURSIVE GCD(_, _)
GCD(a, b) == IF b = 0 THEN a ELSE GCD(b, a % b)

Norm(n, d) ==
  IF d = 0 THEN <<Sign(n), 0>>
  ELSE LET g == GCD(Abs(n), Abs(d))
       IN  <<Sign(d) * (n \div g), Abs(d) \div g>>

N(k) == <<k, 1>>

Infinity == <<1, 0>>

NaN == <<0, 0>>

isFinite(x) == x # Null /\ x[2] # 0

IsNaN(x) == x = NaN

\* -1, 0, 1 for -Infinity, finite, Infinity
Rank(x) == IF x[2] = 0 THEN x[1] ELSE 0

\* x < y, false when either is NaN
Lt(x, y) ==
  /\ ~IsNaN(x)
  /\ ~IsNaN(y)
  /\ IF isFinite(x) /\ isFinite(y) THEN x[1] * y[2] < y[1] * x[2]
     ELSE Rank(x) < Rank(y)

\* x <= y, false when either is NaN
Le(x, y) ==
  /\ ~IsNaN(x)
  /\ ~IsNaN(y)
  /\ IF isFinite(x) /\ isFinite(y) THEN x[1] * y[2] <= y[1] * x[2]
     ELSE Rank(x) <= Rank(y)

Gt(x, y) == Lt(y, x)

Ge(x, y) == Le(y, x)

\* finite operands; the common factor of the denominators is cancelled first
Add(x, y) ==
  LET g == GCD(x[2], y[2])
  IN  Norm(x[1] * (y[2] \div g) + y[1] * (x[2] \div g), x[2] * (y[2] \div g))

Neg(x) == <<-x[1], x[2]>>

Sub(x, y) == Add(x, Neg(y))

\* finite operands; common factors are cancelled before multiplying
Mul(x, y) ==
  LET g1 == GCD(Abs(x[1]), y[2])
      g2 == GCD(Abs(y[1]), x[2])
  IN  Norm((x[1] \div g1) * (y[1] \div g2), (x[2] \div g2) * (y[2] \div g1))

\* x / y for finite operands: k/0 is +-Infinity, 0/0 is NaN
Div(x, y) ==
  IF y[1] = 0 THEN <<Sign(x[1]), 0>>
  ELSE Mul(x, <<Sign(y[1]) * y[2], Abs(y[1])>>)

\* Math.floor
Floor(x) == IF isFinite(x) THEN N(x[1] \div x[2]) ELSE x

\* Math.max, Math.min: NaN if either is NaN
Max(x, y) == IF IsNaN(x) \/ IsNaN(y) THEN NaN ELSE IF Lt(x, y) THEN y ELSE x

Min(x, y) == IF IsNaN(x) \/ IsNaN(y) THEN NaN ELSE IF Lt(y, x) THEN y ELSE x

\* ------------------------------------------------------------------------
\* Sample blocks.  A block of len samples is described by a pattern repeated
\* reps times from index 0, followed by zeros: samples are -1, 0 or 1.
\* ------------------------------------------------------------------------
Sample(buf, i) ==
  IF i < Len(buf.pat) * buf.reps
  THEN buf.pat[(i % Len(buf.pat)) + 1]
  ELSE 0

\* ------------------------------------------------------------------------
\* src/src/pitch.js
\* ------------------------------------------------------------------------
\* the loop of computeRMS: the sum of v * v over the indices [lo, hi).  The
\* sum is exact here, so it is taken by halving the range (the nesting of a
\* 512-step recursion is too deep to evaluate).
RECURSIVE SquareSum(_, _, _)
SquareSum(buf, lo, hi) ==
  IF lo >= hi THEN 0
  ELSE IF hi = lo + 1 THEN Sample(buf, lo) * Sample(buf, lo)
  ELSE LET mid == (lo + hi) \div 2
       IN  SquareSum(buf, lo, mid) + SquareSum(buf, mid, hi)

\* computeRMS returns Math.sqrt(sum / buffer.length).  The square root of a
\* rational is not a rational, so the model carries the value under the root
\* (the mean square; NaN for an empty buffer) and RmsGe compares the root.
computeRMS(buf) == Div(N(SquareSum(buf, 0, buf.len)), N(buf.len))

\* Math.sqrt(ms) >= minRms
RmsGe(ms, minRms) ==
  /\ ~IsNaN(ms)
  /\ ~IsNaN(minRms)
  /\ \/ Le(minRms, N(0))
     \/ /\ isFinite(minRms)
        /\ Ge(ms, Mul(minRms, minRms))

MinBufSize == 512

DefaultMinFreq == 50

DefaultMaxFreq == 2000

minFreqOf(opts) ==
  IF opts.minFreq = Null THEN N(DefaultMinFreq) ELSE opts.minFreq

maxFreqOf(opts) ==
  IF opts.maxFreq = Null THEN N(DefaultMaxFreq) ELSE opts.maxFreq

thresholdOf(opts) ==
  IF opts.threshold = Null THEN <<1, 10>> ELSE opts.threshold

tauMinOf(sr, opts) ==
  Max(N(2), Floor(Div(sr, maxFreqOf(opts))))

tauMaxOf(buf, sr, opts) ==
  Min(N(buf.len - 3), Floor(Div(sr, minFreqOf(opts))))

\* the inner loop of the difference function: the sum of diff * diff over
\* the indices [lo, hi), taken by halving the range
RECURSIVE DiffSum(_, _, _, _)
DiffSum(buf, tau, lo, hi) ==
  IF lo >= hi THEN 0
  ELSE IF hi = lo + 1
       THEN LET diff == Sample(buf, lo) - Sample(buf, lo + tau)
            IN  diff * diff
  ELSE LET mid == (lo + hi) \div 2
       IN  DiffSum(buf, tau, lo, mid) + DiffSum(buf, tau, mid, hi)

\* yin after the difference loop: yin[0] = 1, yin[tau] = d(tau)
Difference(buf, tauMax) ==
  [tau \in 0..tauMax |->
     IF tau = 0 THEN 1 ELSE DiffSum(buf, tau, 0, buf.len - tau)]

RECURSIVE RunningSum(_, _)
RunningSum(d, tau) == IF tau = 0 THEN 0 ELSE d[tau] + RunningSum(d, tau - 1)

\* yin after the CMND loop
CMND(d, tauMax) ==
  [tau \in 0..tauMax |->
     IF tau = 0 THEN N(1)
     ELSE LET runningSum == RunningSum(d, tau)
          IN  Div(N(d[tau] * tau), N(IF runningSum = 0 THEN 1 ELSE runningSum))]

\* WalkRight without the loop of lines 57-59
WalkRightNone(yin, tau, tauMax) == tau

\* lines 57-59: walk right while decreasing
RECURSIVE WalkRight(_, _, _)
WalkRight(yin, tau, tauMax) ==
  IF tau + 1 <= tauMax /\ Lt(yin[tau + 1], yin[tau])
  THEN WalkRight(yin, tau + 1, tauMax)
  ELSE tau

\* first minimum under threshold, scanning from tau; -1 if none
RECURSIVE ThresholdSearch(_, _, _, _)
ThresholdSearch(yin, tau, tauMax, threshold) ==
  IF tau > tauMax THEN -1
  ELSE IF Lt(yin[tau], threshold) THEN WalkRight(yin, tau, tauMax)
  ELSE ThresholdSearch(yin, tau + 1, tauMax, threshold)

\* fallback to the global minimum, scanning from tau with the running
\* minimum minVal found at best; the first of equal minima is kept
RECURSIVE GlobalMin(_, _, _, _, _)
GlobalMin(yin, tau, tauMax, minVal, best) ==
  IF tau > tauMax THEN best
  ELSE IF Lt(yin[tau], minVal)
       THEN GlobalMin(yin, tau + 1, tauMax, yin[tau], tau)
       ELSE GlobalMin(yin, tau + 1, tauMax, minVal, best)

tauEstimateOf(yin, tauMin, tauMax, threshold) ==
  LET first == ThresholdSearch(yin, tauMin, tauMax, threshold)
  IN  IF first # -1 THEN first
      ELSE GlobalMin(yin, tauMin, tauMax, Infinity, -1)

\* betterTauOf with the upper test of line 78 widened to tauMax and the right
\* neighbour clamped to the last lag
betterTauClamped(yin, tauEstimate, tauMax) ==
  IF tauEstimate > 1 /\ tauEstimate <= tauMax
  THEN LET a == yin[tauEstimate - 1]
           b == yin[tauEstimate]
           c == yin[Min(N(tauEstimate + 1), N(tauMax))[1]]
           denom == Mul(N(2), Sub(Sub(Mul(N(2), b), a), c))
       IN  IF denom # N(0)
           THEN Add(N(tauEstimate), Div(Sub(c, a), denom))
           ELSE N(tauEstimate)
  ELSE N(tauEstimate)

\* lines 76-86: parabolic interpolation
betterTauOf(yin, tauEstimate, tauMax) ==
  IF tauEstimate > 1 /\ tauEstimate < tauMax
  THEN LET a == yin[tauEstimate - 1]
           b == yin[tauEstimate]
           c == yin[tauEstimate + 1]
           denom == Mul(N(2), Sub(Sub(Mul(N(2), b), a), c))
       IN  IF denom # N(0)
           THEN Add(N(tauEstimate), Div(Sub(c, a), denom))
           ELSE N(tauEstimate)
  ELSE N(tauEstimate)

\* freqResult without the range test of line 90
freqResultUnranged(freq, opts) ==
  IF ~isFinite(freq) \/ Le(freq, N(0)) THEN Null
  ELSE freq

\* lines 89-91: the final checks on freq = sampleRate / betterTau
freqResult(freq, opts) ==
  IF ~isFinite(freq) \/ Le(freq, N(0)) THEN Null
  ELSE IF Lt(freq, minFreqOf(opts)) \/ Gt(freq, maxFreqOf(opts)) THEN Null
  ELSE freq

\* detectPitchYIN without the length test of line 25
detectPitchYINAnyLength(buf, sr, opts) ==
  LET tauMinN == tauMinOf(sr, opts)
      tauMaxN == tauMaxOf(buf, sr, opts)
  IN  IF Ge(tauMinN, tauMaxN) THEN Null
      ELSE LET tauMin == tauMinN[1]
               tauMax == tauMaxN[1]
               yin == CMND(Difference(buf, tauMax), tauMax)
               tauEstimate ==
                 tauEstimateOf(yin, tauMin, tauMax, thresholdOf(opts))
           IN  IF tauEstimate = -1 THEN Null
               ELSE freqResult(
                      Div(sr, betterTauOf(yin, tauEstimate, tauMax)),
                      opts)

\* lines 19-92
detectPitchYIN(buf, sr, opts) ==
  IF buf.len < MinBufSize THEN Null
  ELSE LET tauMinN == tauMinOf(sr, opts)
           tauMaxN == tauMaxOf(buf, sr, opts)
       IN  IF Ge(tauMinN, tauMaxN) THEN Null
           ELSE LET tauMin == tauMinN[1]
                    tauMax == tauMaxN[1]
                    yin == CMND(Difference(buf, tauMax), tauMax)
                    tauEstimate ==
                      tauEstimateOf(yin, tauMin, tauMax, thresholdOf(opts))
                IN  IF tauEstimate = -1 THEN Null
                    ELSE freqResult(
                           Div(sr,
                               betterTauOf(yin, tauEstimate, tauMax)),
                           opts)

\* ------------------------------------------------------------------------
\* One call of detectPitchYIN, step by step.  call is the activation record:
\* its pc and the locals of the function under their source names.
\* ------------------------------------------------------------------------
VARIABLES
  call          \* the activation record of a stand-alone detectPitchYIN call

MaxPatLen == 3

\* all patterns of 1..MaxPatLen samples
Patterns == UNION {[1..k -> {-1, 0, 1}] : k \in 1..MaxPatLen}

Block(len, pat, reps) == [len |-> len, pat |-> pat, reps |-> reps]

\* a burst of one or two periods followed by silence
Bursts == {Block(MinBufSize, p, r) : p \in Patterns, r \in {1, 2}}

Silence(len) == Block(len, <<0>>, 0)

\* a constant block and a square wave of period 8 filling the block
Steady ==
  {Block(MinBufSize, <<1>>, MinBufSize),
   Block(MinBufSize, <<1, 1, 1, 1, -1, -1, -1, -1>>, MinBufSize \div 8)}

\* blocks one sample too short
ShortBlocks ==
  {Silence(MinBufSize - 1), Block(MinBufSize - 1, <<1, 0, -1, 0>>, 2)}

YinBlocks == Bursts \cup Steady \cup ShortBlocks \cup {Silence(MinBufSize)}

YinRates == {N(8000), N(6000)}

\* a rate low enough for the default minFreq to give a short lag range
LowRate == N(400)

YinOpts(minFreq, maxFreq, threshold) ==
  [minFreq |-> minFreq, maxFreq |-> maxFreq, threshold |-> threshold]

YinOptions ==
  {YinOpts(N(1000), Null, Null),
   YinOpts(N(1000), N(2000), Null),
   YinOpts(N(1000), N(4000), <<1, 10>>),
   YinOpts(N(1000), N(2000), <<1, 2>>),
   YinOpts(N(900), N(1600), <<1, 2>>),
   YinOpts(N(600), N(2000), <<1, 2>>),
   YinOpts(N(1500), N(4000), <<1, 2>>),
   YinOpts(N(2000), N(1000), <<1, 10>>),
   YinOpts(N(1000), N(0), <<1, 10>>),
   YinOpts(N(-1000), N(2000), <<1, 10>>)}

\* the calls made: every block at every rate under every options object, and
\* every block at the low rate under the default options
YinCalls ==
  (YinBlocks \X YinRates \X YinOptions)
    \cup (YinBlocks \X {LowRate} \X {YinOpts(Null, Null, Null)})

NoCall == [pc |-> "idle"]

Enter(buf, sr, opts) ==
  [pc |-> "entry", buffer |-> buf, sampleRate |-> sr, options |-> opts,
   tauMin |-> Null, tauMax |-> Null, yin |-> <<>>, tauEstimate |-> -1,
   betterTau |-> Null, freq |-> Null, result |-> Null]

\* lines 24-29: the length check and the lag bounds
YinBounds ==
  /\ call.pc = "entry"
  /\ IF call.buffer.len < MinBufSize
     THEN call' = [call EXCEPT !.pc = "done", !.result = Null]
     ELSE LET tauMin == tauMinOf(call.sampleRate, call.options)
              tauMax == tauMaxOf(call.buffer, call.sampleRate, call.options)
          IN  call' = [call EXCEPT
                         !.tauMin = tauMin,
                         !.tauMax = tauMax,
                         !.pc = IF Ge(tauMin, tauMax) THEN "done"
                                ELSE "difference",
                         !.result = Null]

\* lines 31-42
YinDifference ==
  /\ call.pc = "difference"
  /\ call' = [call EXCEPT
                !.yin = Difference(call.buffer, call.tauMax[1]),
                !.pc = "cmnd"]

\* lines 44-50
YinCMND ==
  /\ call.pc = "cmnd"
  /\ call' = [call EXCEPT
                !.yin = CMND(call.yin, call.tauMax[1]),
                !.pc = "search"]

\* lines 52-74
YinSearch ==
  /\ call.pc = "search"
  /\ LET tauEstimate ==
           tauEstimateOf(call.yin, call.tauMin[1], call.tauMax[1],
                         thresholdOf(call.options))
     IN  call' = [call EXCEPT
                    !.tauEstimate = tauEstimate,
                    !.pc = IF tauEstimate = -1 THEN "done" ELSE "interpolate"]

\* lines 76-86
YinInterpolate ==
  /\ call.pc = "interpolate"
  /\ call' = [call EXCEPT
                !.betterTau =
                  betterTauOf(call.yin, call.tauEstimate, call.tauMax[1]),
                !.pc = "return"]

\* lines 88-91
YinReturn ==
  /\ call.pc = "return"
  /\ LET freq == Div(call.sampleRate, call.betterTau)
     IN  call' = [call EXCEPT
                    !.freq = freq,
                    !.result = freqResult(freq, call.options),
                    !.pc = "done"]

\* ------------------------------------------------------------------------
\* src/unnamed/part_000: class MicPitch.  An object reference is 0 when null;
\* streams and timers are numbered as they are made.
\* ------------------------------------------------------------------------
VARIABLES
  options,      \* this.options
  ctx,          \* this._ctx: 1 for an AudioContext, 0 if null
  stream,       \* this._stream: the MediaStream, 0 if null
  source,       \* this._source: the stream its source node wraps, 0 if null
  analyser,     \* this._analyser: 1 for an AnalyserNode, 0 if null
  buffer,       \* this._buffer: the length of the Float32Array, 0 if null
  timer,        \* this._timer: the interval id, 0 if null
  listeners,    \* this._listeners: the callbacks in insertion order
  emaFreq,      \* this._emaFreq
  history,      \* this._history: a sequence of [t, f]
  pushed,       \* every entry pushed to this._history since it was last reset
  running,      \* this._running
  deviceId,     \* this._deviceId, 0 if null
  now,          \* performance.now() as the latest cycle read it, in ms
  sampleRate,   \* the sample rate of the audio hardware
  connected,    \* this._source is connected to this._analyser
  liveTimers,   \* the intervals set and not cleared
  liveStreams,  \* the streams opened whose tracks are not stopped
  pending,      \* how many start() and setDevice() calls await getUserMedia
  made,         \* how many streams, timers, calls and cycles were made
  stopReturned, \* stop() has returned and start() was not called since
  cycle,        \* what the step just taken did, if it was a cycle
  average,      \* what the step just taken returned, if it was a query
  limit         \* how far the callers and the timers go in this behaviour

micVars ==
  <<options, ctx, stream, source, analyser, buffer, timer, listeners, emaFreq,
    history, pushed, running, deviceId, now, sampleRate, connected, liveTimers,
    liveStreams, pending, made, stopReturned, cycle, average, limit>>

vars == <<micVars, call>>

MaxStarts == 3

MaxSetDevice == 1

MaxListeners == 2

MaxCycles == 3

\* any callers: start() calls that overlap, few cycles
AnyCallers ==
  [start |-> MaxStarts, setDevice |-> MaxSetDevice, listeners |-> 1,
   cycles |-> 1]

\* one start() call, many cycles
OneStart ==
  [start |-> 1, setDevice |-> 0, listeners |-> MaxListeners,
   cycles |-> MaxCycles]

\* lines 18-28: the defaults of the constructor
Defaults ==
  [minFreq |-> N(50), maxFreq |-> N(2000), threshold |-> <<1, 10>>,
   fftSize |-> 2048, updateIntervalMs |-> N(50), smoothing |-> <<1, 4>>,
   averageSeconds |-> N(1), minRms |-> <<1, 100>>]

\* lines 18-28: { defaults, ...options }; nothing is validated
MergeOptions(given) ==
  [k \in DOMAIN Defaults |->
     IF k \in DOMAIN given THEN given[k] ELSE Defaults[k]]

\* the sample rates of the audio hardware
MicRates == {N(8000)}

NoCycle == [ran |-> FALSE]

NoAverage == [asked |-> FALSE]

\* lines 17-45: the state after new MicPitch(given)
Constructed(given) ==
  /\ options = MergeOptions(given)
  /\ ctx = 0
  /\ stream = 0
  /\ source = 0
  /\ analyser = 0
  /\ buffer = 0
  /\ timer = 0
  /\ listeners = <<>>
  /\ emaFreq = Null
  /\ history = <<>>
  /\ pushed = <<>>
  /\ running = FALSE
  /\ deviceId = 0
  /\ now = 0
  /\ sampleRate \in MicRates
  /\ connected = FALSE
  /\ liveTimers = {}
  /\ liveStreams = {}
  /\ pending = [start |-> 0, setDevice |-> 0]
  /\ made = [stream |-> 0, timer |-> 0, start |-> 0, setDevice |-> 0,
             cycles |-> 0]
  /\ stopReturned = FALSE
  /\ cycle = NoCycle
  /\ average = NoAverage

\* the options the instances are constructed with: all override fftSize and
\* minFreq; the first and the last are valid, the others break a rule of the
\* configuration
Base ==
  [minFreq |-> N(1000), fftSize |-> MinBufSize, updateIntervalMs |-> N(50)]

GivenOptions ==
  {Base,
   Base @@ [minRms |-> N(0), smoothing |-> N(0)],
   Base @@ [smoothing |-> N(2), averageSeconds |-> <<11, 10>>],
   Base @@ [maxFreq |-> N(1000)],
   [minFreq |-> N(1000), fftSize |-> MinBufSize \div 2, smoothing |-> N(1),
    averageSeconds |-> <<1, 2>>]}

ListenerIds == 1..MaxListeners

\* lines 51-54
OnFrequency(cb) ==
  /\ cb <= limit.listeners
  /\ listeners' = IF \E i \in 1..Len(listeners) : listeners[i] = cb
                  THEN listeners
                  ELSE Append(listeners, cb)
  /\ cycle' = NoCycle
  /\ average' = NoAverage
  /\ UNCHANGED <<options, pushed, ctx, stream, source, analyser, buffer, timer,
                 emaFreq, history, running, deviceId, now, sampleRate,
                 connected, liveTimers, liveStreams, pending, made,
                 stopReturned, limit, call>>

\* lines 56-58, and the function onFrequency returns
OffFrequency(cb) ==
  /\ cb <= limit.listeners
  /\ listeners' = SelectSeq(listeners, LAMBDA x : x # cb)
  /\ cycle' = NoCycle
  /\ average' = NoAverage
  /\ UNCHANGED <<options, pushed, ctx, stream, source, analyser, buffer, timer,
                 emaFreq, history, running, deviceId, now, sampleRate,
                 connected, liveTimers, liveStreams, pending, made,
                 stopReturned, limit, call>>

\* lines 60-72: start() up to its await
Start ==
  /\ made.start < limit.start
  /\ made' = [made EXCEPT !.start = @ + 1]
  /\ stopReturned' = FALSE
  /\ IF running
     THEN UNCHANGED <<ctx, analyser, buffer, connected, pending>>
     ELSE /\ ctx' = 1
          /\ analyser' = 1
          /\ buffer' = options.fftSize
          /\ connected' = FALSE
          /\ pending' = [pending EXCEPT !.start = @ + 1]
  /\ cycle' = NoCycle
  /\ average' = NoAverage
  /\ UNCHANGED <<options, pushed, stream, source, timer, listeners, emaFreq,
                 history, running, deviceId, now, sampleRate, liveTimers,
                 liveStreams, limit, call>>

\* lines 78-103
Stop ==
  /\ stopReturned' = TRUE
  /\ IF ~running
     THEN UNCHANGED <<ctx, stream, analyser, buffer, timer, emaFreq, history,
                      pushed, running, connected, liveTimers, liveStreams>>
     ELSE /\ liveTimers' = liveTimers \ {timer}
          /\ timer' = 0
          /\ connected' = FALSE
          /\ analyser' = 0
          /\ liveStreams' = liveStreams \ {stream}
          /\ stream' = 0
          /\ ctx' = 0
          /\ buffer' = 0
          /\ emaFreq' = Null
          /\ history' = <<>>
          /\ pushed' = <<>>
          /\ running' = FALSE
  /\ cycle' = NoCycle
  /\ average' = NoAverage
  /\ UNCHANGED <<options, source, listeners, deviceId, now, sampleRate,
                 pending, made, limit, call>>

\* lines 120-125: setDevice() up to its await
SetDevice(id) ==
  /\ made.setDevice < limit.setDevice
  /\ made' = [made EXCEPT !.setDevice = @ + 1]
  /\ deviceId' = id
  /\ pending' = IF running THEN [pending EXCEPT !.setDevice = @ + 1]
                ELSE pending
  /\ cycle' = NoCycle
  /\ average' = NoAverage
  /\ UNCHANGED <<options, pushed, ctx, stream, source, analyser, buffer, timer,
                 listeners, emaFreq, history, running, now, sampleRate,
                 connected, liveTimers, liveStreams, stopReturned, limit, call>>

\* lines 142-158 after the await, getUserMedia having resolved with a new
\* stream, then lines 74-75 and 230 when the caller is start()
Resolve(kind) ==
  /\ pending[kind] > 0
  /\ pending' = [pending EXCEPT ![kind] = @ - 1]
  /\ LET newStream == made.stream + 1
         newTimer == made.timer + 1
     IN  /\ stream' = newStream
         /\ liveStreams' = (liveStreams \ {stream}) \cup {newStream}
         /\ IF ctx # 0 /\ analyser # 0
            THEN source' = newStream /\ connected' = TRUE
            ELSE source' = source /\ connected' = FALSE
         /\ IF kind = "start"
            THEN /\ running' = TRUE
                 /\ timer' = newTimer
                 /\ liveTimers' = liveTimers \cup {newTimer}
                 /\ made' = [made EXCEPT !.stream = @ + 1, !.timer = @ + 1]
            ELSE /\ made' = [made EXCEPT !.stream = @ + 1]
                 /\ UNCHANGED <<running, timer, liveTimers>>
  /\ cycle' = NoCycle
  /\ average' = NoAverage
  /\ UNCHANGED <<options, pushed, ctx, analyser, buffer, listeners, emaFreq,
                 history, deviceId, now, sampleRate, stopReturned, limit, call>>

\* line 143: getUserMedia rejects, and the call that awaited it rejects
Reject(kind) ==
  /\ pending[kind] > 0
  /\ pending' = [pending EXCEPT ![kind] = @ - 1]
  /\ cycle' = NoCycle
  /\ average' = NoAverage
  /\ UNCHANGED <<options, pushed, ctx, stream, source, analyser, buffer, timer,
                 listeners, emaFreq, history, running, deviceId, now,
                 sampleRate, connected, liveTimers, liveStreams, made,
                 stopReturned, limit, call>>

\* the blocks of len samples a live input delivers: silence, a constant and
\* a square wave of period 8
InputBlocks(len) ==
  {Silence(len),
   Block(len, <<1>>, len),
   Block(len, <<1, 1, 1, 1, -1, -1, -1, -1>>, len \div 8)}

\* the blocks the analyser can hand to a cycle: those of a live input when
\* the source node of a live stream is connected to it, silence otherwise
MicBlocks(len) ==
  IF connected /\ source \in liveStreams
  THEN InputBlocks(len)
  ELSE {Silence(len)}

MicConfigs == {MergeOptions(given) : given \in GivenOptions}

\* line 200: the options tick passes to detectPitchYIN
YinArgs(opts) ==
  [minFreq |-> opts.minFreq, maxFreq |-> opts.maxFreq,
   threshold |-> opts.threshold]

\* computeRMS and detectPitchYIN are pure: their values on the blocks, rates
\* and options of the instances are tabulated once and tick looks them up
\* (f @@ <<>> is f, held by TLC as a table instead of being recomputed)
RmsTable ==
  [block \in UNION {InputBlocks(c.fftSize) : c \in MicConfigs} |->
     computeRMS(block)] @@ <<>>

YinTable ==
  [block \in UNION {InputBlocks(c.fftSize) : c \in MicConfigs},
   sr \in MicRates, opts \in {YinArgs(c) : c \in MicConfigs} |->
     detectPitchYIN(block, sr, opts)] @@ <<>>

\* Smooth with the else branch of line 213 lost: silence keeps the stale value
SmoothNoReset(ema, freq, smoothing) ==
  IF freq # Null
  THEN IF ema = Null THEN freq
       ELSE IF Gt(smoothing, N(0))
            THEN LET alpha == Min(Max(smoothing, N(0)), N(1))
                 IN  Add(Mul(alpha, freq), Mul(Sub(N(1), alpha), ema))
            ELSE freq
  ELSE ema

\* Smooth with the weights of line 209 exchanged
SmoothSwapped(ema, freq, smoothing) ==
  IF freq # Null
  THEN IF ema = Null THEN freq
       ELSE IF Gt(smoothing, N(0))
            THEN LET alpha == Min(Max(smoothing, N(0)), N(1))
                 IN  Add(Mul(alpha, ema), Mul(Sub(N(1), alpha), freq))
            ELSE freq
  ELSE Null

\* Smooth without the clamp of line 208
SmoothUnclamped(ema, freq, smoothing) ==
  IF freq # Null
  THEN IF ema = Null THEN freq
       ELSE IF Gt(smoothing, N(0))
            THEN Add(Mul(smoothing, freq), Mul(Sub(N(1), smoothing), ema))
            ELSE freq
  ELSE Null

\* lines 203-216: exponential smoothing
Smooth(ema, freq, smoothing) ==
  IF freq # Null
  THEN IF ema = Null THEN freq
       ELSE IF Gt(smoothing, N(0))
            THEN LET alpha == Min(Max(smoothing, N(0)), N(1))
                 IN  Add(Mul(alpha, freq), Mul(Sub(N(1), alpha), ema))
            ELSE freq
  ELSE Null

\* TrimCutoff without the 200 ms margin of line 222
TrimCutoffNoMargin(t, opts) ==
  Sub(N(t), Mul(Max(N(1), opts.averageSeconds), N(1000)))

\* TrimCutoff without the window term of line 222
TrimCutoffMarginOnly(t, opts) == Sub(N(t), N(200))

\* line 222: the cutoff of the trim
TrimCutoff(t, opts) ==
  Sub(Sub(N(t), Mul(Max(N(1), opts.averageSeconds), N(1000))), N(200))

\* lines 223-225: shift while the first entry is older than the cutoff
RECURSIVE TrimHistory(_, _)
TrimHistory(h, cutoff) ==
  IF Len(h) > 0 /\ Lt(N(h[1].t), cutoff)
  THEN TrimHistory(Tail(h), cutoff)
  ELSE h

\* Record with the new entry put in front
RecordAtFront(h, t, f, opts) ==
  TrimHistory(<<[t |-> t, f |-> f]>> \o h, TrimCutoff(t, opts))

\* lines 218-225: push, then trim
Record(h, t, f, opts) ==
  TrimHistory(Append(h, [t |-> t, f |-> f]), TrimCutoff(t, opts))

\* this._history as the listeners find it, with _emit called before the push
HistoryBeforePush(h, t, f, opts) == h

\* lines 218-227: this._history as the listeners of _emit find it: _emit is
\* called after the push and the trim
HistoryAtEmit(h, t, f, opts) == Record(h, t, f, opts)

\* Emit without the try/catch of line 183: the first exception ends the loop
RECURSIVE EmitNoCatch(_, _, _)
EmitNoCatch(ls, freq, throwers) ==
  IF ls = <<>> THEN <<>>
  ELSE <<[cb |-> Head(ls), freq |-> freq, threw |-> Head(ls) \in throwers]>>
       \o (IF Head(ls) \in throwers THEN <<>>
           ELSE EmitNoCatch(Tail(ls), freq, throwers))

\* lines 181-185: the calls made, in order; a listener of throwers throws and
\* the exception is caught
RECURSIVE Emit(_, _, _)
Emit(ls, freq, throwers) ==
  IF ls = <<>> THEN <<>>
  ELSE <<[cb |-> Head(ls), freq |-> freq, threw |-> Head(ls) \in throwers]>>
       \o Emit(Tail(ls), freq, throwers)

\* line 230: the delay of setInterval
Interval(opts) == Max(N(10), opts.updateIntervalMs)[1]

\* how late after its interval a tick can run, in ms
Lateness == {0, 600}

\* what a cycle is run with: how late it runs and the block it reads; a late
\* cycle reads the constant block of a live input
TickInputs(len) ==
  {input \in Lateness \X MicBlocks(len) :
     input[1] = 0 \/ input[2] = Block(len, <<1>>, len)}

\* lines 190-191: a timer fires and tick finds no analyser or no buffer
TickReturns ==
  /\ liveTimers # {}
  /\ analyser = 0 \/ buffer = 0
  /\ cycle' = NoCycle
  /\ average' = NoAverage
  /\ UNCHANGED <<options, pushed, ctx, stream, source, analyser, buffer, timer,
                 listeners, emaFreq, history, running, deviceId, now,
                 sampleRate, connected, liveTimers, liveStreams, pending, made,
                 stopReturned, limit, call>>

\* the callbacks that throw when invoked: every other one
Throwing == {cb \in ListenerIds : cb % 2 = 1}

\* lines 190-228: a timer fires late ms behind its interval and tick runs
\* one cycle on block
Tick(late, block) ==
  /\ liveTimers # {}
  /\ analyser # 0 /\ buffer # 0
  /\ made.cycles < limit.cycles
  /\ made' = [made EXCEPT !.cycles = @ + 1]
  /\ now' = now + Interval(options) + late
  /\ LET rms == RmsTable[block]
         gate == RmsGe(rms, options.minRms)
         freq == IF gate
                 THEN YinTable[block, sampleRate, YinArgs(options)]
                 ELSE Null
         ema == Smooth(emaFreq, freq, options.smoothing)
     IN  /\ emaFreq' = ema
         /\ history' = Record(history, now', ema, options)
         /\ pushed' = Append(pushed, [t |-> now', f |-> ema])
         /\ cycle' = [ran |-> TRUE, block |-> block, gate |-> gate,
                      called |-> gate, freq |-> freq, prior |-> emaFreq,
                      before |-> history,
                      seen |-> [emaFreq |-> ema,
                                history |->
                                  HistoryAtEmit(history, now', ema, options)],
                      calls |-> Emit(listeners, ema, Throwing),
                      running |-> running, stopReturned |-> stopReturned]
  /\ average' = NoAverage
  /\ UNCHANGED <<options, ctx, stream, source, analyser, buffer, timer,
                 listeners, running, deviceId, sampleRate, connected,
                 liveTimers, liveStreams, pending, stopReturned, limit, call>>

\* AverageScan with count++ moved out of the test of line 173
RECURSIVE AverageScanCountsAll(_, _, _, _, _)
AverageScanCountsAll(h, i, cutoff, sum, count) ==
  IF i < 1 THEN <<sum, count>>
  ELSE IF Lt(N(h[i].t), cutoff) THEN <<sum, count>>
  ELSE IF h[i].f # Null /\ isFinite(h[i].f)
       THEN AverageScanCountsAll(h, i - 1, cutoff, Add(sum, h[i].f), count + 1)
       ELSE AverageScanCountsAll(h, i - 1, cutoff, sum, count + 1)

\* lines 165-179: the backward scan from entry i with sum and count so far
RECURSIVE AverageScan(_, _, _, _, _)
AverageScan(h, i, cutoff, sum, count) ==
  IF i < 1 THEN <<sum, count>>
  ELSE IF Lt(N(h[i].t), cutoff) THEN <<sum, count>>
  ELSE IF h[i].f # Null /\ isFinite(h[i].f)
       THEN AverageScan(h, i - 1, cutoff, Add(sum, h[i].f), count + 1)
       ELSE AverageScan(h, i - 1, cutoff, sum, count)

getAverageFrequency(h, t, seconds) ==
  LET cutoff == Sub(N(t), Mul(seconds, N(1000)))
      sc == AverageScan(h, Len(h), cutoff, N(0), 0)
  IN  IF sc[2] # 0 THEN Div(sc[1], N(sc[2])) ELSE Null

\* the queries made: the window asked for, in seconds (Null asks for the
\* default), and how long after the latest cycle the clock is read, in ms
Queries == {<<Null, 0>>, <<Null, 500>>, <<<<1, 2>>, 500>>, <<N(2), 0>>}

\* lines 165-179: getAverageFrequency(seconds), called delay ms after the
\* latest cycle.  The call writes no field, so only what it read and returned
\* is kept, in average.
GetAverage(seconds, delay) ==
  /\ LET s == IF seconds = Null THEN options.averageSeconds ELSE seconds
     IN  average' = [asked |-> TRUE, seconds |-> s, at |-> now + delay,
                     result |-> getAverageFrequency(history, now + delay, s)]
  /\ cycle' = NoCycle
  /\ UNCHANGED <<options, pushed, ctx, stream, source, analyser, buffer, timer,
                 listeners, emaFreq, history, running, deviceId, now,
                 sampleRate, connected, liveTimers, liveStreams, pending, made,
                 stopReturned, limit, call>>

Next ==
  \/ \E cb \in ListenerIds : OnFrequency(cb)
  \/ \E cb \in ListenerIds : OffFrequency(cb)
  \/ Start
  \/ Stop
  \/ SetDevice(1)
  \/ \E kind \in {"start", "setDevice"} : Resolve(kind)
  \/ \E kind \in {"start", "setDevice"} : Reject(kind)
  \/ TickReturns
  \/ \E input \in TickInputs(buffer) : Tick(input[1], input[2])
  \/ \E query \in Queries : GetAverage(query[1], query[2])

\* any callers
Init ==
  /\ \E given \in GivenOptions : Constructed(given)
  /\ limit = AnyCallers
  /\ call = NoCall

Spec == Init /\ [][Next]_vars

\* the steps of an instance started once: no setDevice(), and no timer that
\* outlives its analyser
NextCycles ==
  \/ \E cb \in ListenerIds : OnFrequency(cb)
  \/ \E cb \in ListenerIds : OffFrequency(cb)
  \/ Start
  \/ Stop
  \/ Resolve("start")
  \/ Reject("start")
  \/ \E input \in TickInputs(buffer) : Tick(input[1], input[2])
  \/ \E query \in Queries : GetAverage(query[1], query[2])

\* one start() call and many cycles
InitCycles ==
  /\ \E given \in GivenOptions : Constructed(given)
  /\ limit = OneStart
  /\ call = NoCall

SpecCycles == InitCycles /\ [][NextCycles]_vars

YinInit ==
  /\ \E c \in YinCalls : call = Enter(c[1], c[2], c[3])
  /\ Constructed(<<>>)
  /\ limit = OneStart

YinNext ==
  \/ YinBounds /\ UNCHANGED micVars
  \/ YinDifference /\ UNCHANGED micVars
  \/ YinCMND /\ UNCHANGED micVars
  \/ YinSearch /\ UNCHANGED micVars
  \/ YinInterpolate /\ UNCHANGED micVars
  \/ YinReturn /\ UNCHANGED micVars

SpecYIN == YinInit /\ [][YinNext]_vars

\* ------------------------------------------------------------------------
\* Properties
\* ------------------------------------------------------------------------
Last(h) == h[Len(h)]

\* every call of the cycle just run passed freq
AllCallsPass(freq) ==
  \A i \in 1..Len(cycle.calls) : cycle.calls[i].freq = freq

\* the block holds no sample other than zero
IsSilent(block) ==
  block.reps = 0 \/ \A i \in 1..Len(block.pat) : block.pat[i] = 0

\* C1: a cycle whose raw estimate is absent leaves the smoothed state absent,
\* records an absent value in history for the cycle and passes the absent
\* value to every listener, whatever the smoothed state was before and
\* whatever the smoothing coefficient is.
C1_SilenceReset ==
  (cycle.ran /\ cycle.freq = Null) =>
    /\ emaFreq = Null
    /\ history # <<>>
    /\ Last(history) = [t |-> now, f |-> Null]
    /\ AllCallsPass(Null)

\* a silent cycle that follows a cycle with an estimate and notifies a
\* listener
C1_Witness ==
  /\ cycle.ran
  /\ cycle.freq = Null
  /\ cycle.prior # Null
  /\ cycle.calls # <<>>

\* C2: for an all-zero block the gate is false, detectPitchYIN is not invoked
\* and the listeners are passed the absent value, for every instance.
C2_ZeroBlockGated ==
  (cycle.ran /\ IsSilent(cycle.block)) =>
    /\ ~cycle.gate
    /\ ~cycle.called
    /\ AllCallsPass(Null)

\* the rules of configuration: 0 < minFreq < maxFreq, every numeric option
\* above 0, smoothing within [0, 1]
ValidOptions(opts) ==
  /\ Lt(opts.minFreq, opts.maxFreq)
  /\ \A k \in {"minFreq", "maxFreq", "threshold", "updateIntervalMs",
               "smoothing", "averageSeconds", "minRms"} : Gt(opts[k], N(0))
  /\ opts.fftSize > 0
  /\ Le(N(0), opts.smoothing) /\ Le(opts.smoothing, N(1))

\* C3: the configuration is validated at construction, so every instance that
\* runs cycles has 0 < minFreq < maxFreq, its numeric options above 0 and its
\* smoothing within [0, 1].
C3_ValidatedAtConstruction == cycle.ran => ValidOptions(options)

\* C4: in every cycle every registered listener is invoked exactly once with
\* the smoothed result of the cycle, also when other listeners throw; the
\* smoothed state, the history entry of the cycle and the timer are as the
\* cycle left them.
C4_ListenerIsolation ==
  cycle.ran =>
    /\ \A i \in 1..Len(listeners) :
         Cardinality({j \in 1..Len(cycle.calls) :
                        cycle.calls[j].cb = listeners[i]}) = 1
    /\ Len(cycle.calls) = Len(listeners)
    /\ AllCallsPass(emaFreq)
    /\ history # <<>>
    /\ Last(history) = [t |-> now, f |-> emaFreq]
    /\ running => timer \in liveTimers

\* a cycle with two listeners of which the first throws
C4_Witness ==
  /\ cycle.ran
  /\ Len(listeners) = 2
  /\ Len(cycle.calls) = 2
  /\ cycle.calls[1].threw
  /\ ~cycle.calls[2].threw
  /\ cycle.freq # Null

\* the entries of h that a query at t over seconds takes: a present value and
\* a timestamp at or after t - seconds * 1000
InWindow(h, t, seconds) ==
  {i \in 1..Len(h) :
     /\ h[i].f # Null
     /\ Ge(N(h[i].t), Sub(N(t), Mul(seconds, N(1000))))}

RECURSIVE SumOver(_, _)
SumOver(h, idx) ==
  IF idx = {} THEN N(0)
  ELSE LET i == CHOOSE j \in idx : TRUE
       IN  Add(h[i].f, SumOver(h, idx \ {i}))

\* C5: getAverageFrequency(seconds) called at time t returns the mean of
\* exactly the history entries with a present value and a timestamp at or
\* after t - seconds * 1000, and the absent value iff there is none: the backward
\* scan that stops at the first older entry equals the scan of all entries.
C5_AverageIsWindowMean ==
  average.asked =>
    LET idx == InWindow(history, average.at, average.seconds)
    IN  IF idx = {} THEN average.result = Null
        ELSE /\ average.result # Null
             /\ average.result = Div(SumOver(history, idx), N(Cardinality(idx)))

\* a query over a history with an entry older than the window, and a present
\* and an absent entry within it
C5_Witness ==
  /\ average.asked
  /\ average.result # Null
  /\ \E i, j, k \in 1..Len(history) :
       /\ Lt(N(history[i].t), Sub(N(average.at), Mul(average.seconds, N(1000))))
       /\ j \in InWindow(history, average.at, average.seconds)
       /\ k > i
       /\ history[k].f = Null

\* C6: whenever detectPitchYIN returns a present value, the value is finite,
\* above 0 and within [minFreq, maxFreq] of the call.
C6_ResultInRange ==
  (call.pc = "done" /\ call.result # Null) =>
    /\ isFinite(call.result)
    /\ Gt(call.result, N(0))
    /\ Ge(call.result, minFreqOf(call.options))
    /\ Le(call.result, maxFreqOf(call.options))

\* a call that returns a present value from a refined lag
C6_Witness ==
  /\ call.pc = "done"
  /\ call.result # Null
  /\ call.betterTau # N(call.tauEstimate)
  /\ Gt(call.result, minFreqOf(call.options))
  /\ Lt(call.result, maxFreqOf(call.options))

\* the call has chosen a candidate lag and passed the interpolation step
Interpolated ==
  call.pc \in {"return", "done"} /\ call.betterTau # Null

\* C7 as stated: the lag is refined only when the candidate lies strictly
\* between tauMin and tauMax; a candidate at tauMin or at tauMax is used
\* unrefined.
C7_InteriorOnly ==
  Interpolated =>
    ((call.tauEstimate = call.tauMin[1] \/ call.tauEstimate = call.tauMax[1])
       => call.betterTau = N(call.tauEstimate))

\* C7: the lag is refined only when the candidate lies strictly between 1 and
\* tauMax; a candidate at tauMax is used unrefined and the frequency computed
\* from it is sampleRate / candidate; a candidate at tauMin < tauMax is refined
\* like any lag below tauMax.
C7_BelowTauMaxOnly ==
  Interpolated =>
    /\ call.tauEstimate >= call.tauMin[1]
    /\ call.tauEstimate <= call.tauMax[1]
    /\ call.betterTau # N(call.tauEstimate) =>
         (1 < call.tauEstimate /\ call.tauEstimate < call.tauMax[1])
    /\ call.tauEstimate = call.tauMax[1] =>
         /\ call.betterTau = N(call.tauEstimate)
         /\ call.pc = "done" =>
              call.freq = Div(call.sampleRate, N(call.tauEstimate))

\* a call whose candidate is tauMax, the neighbour below it differs, and the
\* unrefined lag yields the returned frequency
C7_Witness ==
  /\ call.pc = "done"
  /\ call.betterTau # Null
  /\ call.tauEstimate = call.tauMax[1]
  /\ call.yin[call.tauEstimate - 1] # call.yin[call.tauEstimate]
  /\ call.result = Div(call.sampleRate, N(call.tauEstimate))

\* the block is shorter than MinBufSize or the lag range is empty
Insufficient(block) ==
  \/ block.len < MinBufSize
  \/ Ge(tauMinOf(sampleRate, YinArgs(options)),
        tauMaxOf(block, sampleRate, YinArgs(options)))

\* C8: a cycle that invokes detectPitchYIN on a block shorter than 512 samples
\* or with tauMin >= tauMax gets the absent value and completes normally: the
\* smoothed state is absent, the history gains the entry (now, absent) and
\* every listener is notified with the absent value.
C8_InsufficientData ==
  (cycle.ran /\ cycle.called /\ Insufficient(cycle.block)) =>
    /\ cycle.freq = Null
    /\ emaFreq = Null
    /\ history # <<>>
    /\ Last(history) = [t |-> now, f |-> Null]
    /\ Len(cycle.calls) = Len(listeners)
    /\ AllCallsPass(Null)

\* a cycle that passes the gate with a loud block that is too short and
\* notifies a listener
C8_Witness ==
  /\ cycle.ran
  /\ cycle.called
  /\ cycle.block.len < MinBufSize
  /\ ~IsSilent(cycle.block)
  /\ cycle.calls # <<>>
  /\ cycle.freq = Null

\* C9: whenever the pipeline is not running, the history is empty and the
\* smoothed state is absent.
C9_IdleIsEmpty == ~running => (history = <<>> /\ emaFreq = Null)

\* C10: after stop() has returned no cycle runs, until start() is called
\* again.
C10_NoCycleAfterStop == ~(cycle.ran /\ cycle.stopReturned)

\* C11: whenever detectPitchYIN returns a present frequency f, the lag
\* sampleRate / f lies within [tauMin, tauMax].
C11_LagWithinBounds ==
  (call.pc = "done" /\ call.result # Null) =>
    LET lag == Div(call.sampleRate, call.result)
    IN  /\ Ge(lag, call.tauMin)
        /\ Le(lag, call.tauMax)

\* the call has run the search of lines 52-74
Searched ==
  \/ call.pc \in {"interpolate", "return"}
  \/ call.pc = "done" /\ call.yin # <<>>

\* the lags of the search range with a CMND value under the threshold
UnderThreshold ==
  {tau \in call.tauMin[1]..call.tauMax[1] :
     Lt(call.yin[tau], thresholdOf(call.options))}

\* the smallest lag under the threshold
FirstUnder ==
  CHOOSE tau \in UnderThreshold : \A other \in UnderThreshold : tau <= other

\* C16: if some lag of [tauMin, tauMax] has a CMND value under the threshold,
\* the candidate is reached from the smallest such lag by advancing while the
\* next lag is within tauMax and has a smaller CMND value; otherwise it is the
\* smallest lag of [tauMin, tauMax] that attains the minimum CMND value.  The
\* candidate is within [tauMin, tauMax], and without a candidate the result is
\* absent.
C16_CandidateSelection ==
  Searched =>
    LET est == call.tauEstimate
        lo == call.tauMin[1]
        hi == call.tauMax[1]
    IN  IF est = -1
        THEN call.pc = "done" /\ call.result = Null
        ELSE /\ est \in lo..hi
             /\ IF UnderThreshold # {}
                THEN /\ est >= FirstUnder
                     /\ \A tau \in FirstUnder..(est - 1) :
                          Lt(call.yin[tau + 1], call.yin[tau])
                     /\ est = hi \/ ~Lt(call.yin[est + 1], call.yin[est])
                ELSE /\ \A tau \in lo..hi : Le(call.yin[est], call.yin[tau])
                     /\ \A tau \in lo..(est - 1) :
                          Lt(call.yin[est], call.yin[tau])

\* a call whose candidate was reached by advancing from the first lag under
\* the threshold and stopped before tauMax, and that returns a frequency
C16_Witness ==
  /\ call.pc = "done"
  /\ call.result # Null
  /\ call.yin # <<>>
  /\ UnderThreshold # {}
  /\ call.tauEstimate > FirstUnder
  /\ call.tauEstimate < call.tauMax[1]

\* C17: in every reachable state at most one timer set by _loop() is live,
\* and a timer is live only while the instance is running, also when start()
\* calls overlap.
C17_SingleTimer ==
  /\ Cardinality(liveTimers) <= 1
  /\ liveTimers # {} => running

\* C18: whenever the instance is not running and no start() or setDevice()
\* call is in flight, it holds no media stream and every stream it opened
\* has had its tracks stopped.
C18_NoStreamWhileIdle ==
  (~running /\ pending.start = 0 /\ pending.setDevice = 0) =>
    /\ stream = 0
    /\ liveStreams = {}

\* the mean of the present values of the entries of h that a query at t over
\* seconds takes, absent if there is none
WindowMean(h, t, seconds) ==
  LET idx == InWindow(h, t, seconds)
  IN  IF idx = {} THEN Null
      ELSE Div(SumOver(h, idx), N(Cardinality(idx)))

\* C12: a cycle gates, estimates, smooths, records, trims and notifies in that
\* order: when a listener is invoked with v the smoothed state is v and the
\* last history entry is (now, v), so a getAverageFrequency() call inside the
\* listener takes the value of the cycle into account.
C12_NotifyAfterRecord ==
  cycle.ran =>
    /\ cycle.called = cycle.gate
    /\ ~cycle.gate => cycle.freq = Null
    /\ \A i \in 1..Len(cycle.calls) :
         LET v == cycle.calls[i].freq
             h == cycle.seen.history
         IN  /\ cycle.seen.emaFreq = v
             /\ h # <<>>
             /\ Last(h) = [t |-> now, f |-> v]
             /\ (v # Null /\ Gt(options.averageSeconds, N(0))) =>
                  /\ Len(h) \in InWindow(h, now, options.averageSeconds)
                  /\ getAverageFrequency(h, now, options.averageSeconds)
                       = WindowMean(h, now, options.averageSeconds)

\* a cycle with an estimate that notifies a listener and follows an earlier
\* cycle
C12_Witness ==
  /\ cycle.ran
  /\ cycle.calls # <<>>
  /\ cycle.calls[1].freq # Null
  /\ cycle.before # <<>>

\* C13: every cycle past the guard appends exactly one entry to the history,
\* entries leave only from the front, and the timestamps of the history never
\* decrease from first to last.
C13_HistoryOrdered ==
  /\ \A i \in 1..(Len(history) - 1) : history[i].t <= history[i + 1].t
  /\ cycle.ran =>
       /\ history # <<>>
       /\ Last(history).t = now
       /\ \E k \in 0..Len(cycle.before) :
            history = SubSeq(Append(cycle.before, Last(history)),
                             k + 1, Len(cycle.before) + 1)

\* a cycle that appends an entry and drops one from the front, with an older
\* entry left
C13_Witness ==
  /\ cycle.ran
  /\ Len(history) >= 2
  /\ Len(history) <= Len(cycle.before)

\* now - max(1, averageSeconds) * 1000 - 200
EvictionCutoff ==
  Sub(N(now),
      Add(Mul(IF Lt(N(1), options.averageSeconds)
              THEN options.averageSeconds ELSE N(1),
              N(1000)),
          N(200)))

\* C14: right after a cycle at now no history entry is older than
\* now - max(1, averageSeconds) * 1000 - 200, and every entry pushed in the
\* current run that is not older than that is still in the history.
C14_EvictionBound ==
  cycle.ran =>
    LET Kept(e) == Ge(N(e.t), EvictionCutoff)
    IN  /\ \A i \in 1..Len(history) : Kept(history[i])
        /\ history = SelectSeq(pushed, Kept)

\* a cycle that evicts an entry and keeps two
C14_Witness ==
  /\ cycle.ran
  /\ Len(history) < Len(pushed)
  /\ Len(history) >= 2
  /\ Lt(N(pushed[1].t), EvictionCutoff)

\* clamp(x, 0, 1)
Clamp01(x) == IF Lt(x, N(0)) THEN N(0) ELSE IF Gt(x, N(1)) THEN N(1) ELSE x

\* |x - y|
Distance(x, y) == IF Lt(x, y) THEN Sub(y, x) ELSE Sub(x, y)

\* C15: after a cycle with a present raw estimate c and the prior smoothed
\* state p, the smoothed state is c when p is absent, c when alpha <= 0, and
\* clamp(alpha, 0, 1) * c + (1 - clamp(alpha, 0, 1)) * p otherwise; so it is c
\* when p = c (a constant estimate is passed on unchanged), |smoothed - c|
\* is at most |p - c|, and the smoothed state is c when alpha = 1.
C15_SmoothingStep ==
  (cycle.ran /\ cycle.freq # Null) =>
    LET c == cycle.freq
        p == cycle.prior
        alpha == options.smoothing
        w == Clamp01(alpha)
    IN  /\ p = Null => emaFreq = c
        /\ (p # Null /\ Le(alpha, N(0))) => emaFreq = c
        /\ (p # Null /\ Gt(alpha, N(0))) =>
             emaFreq = Add(Mul(w, c), Mul(Sub(N(1), w), p))
        /\ p = c => emaFreq = c
        /\ p # Null => Le(Distance(emaFreq, c), Distance(p, c))
        /\ (p # Null /\ alpha = N(1)) => emaFreq = c

\* a cycle that blends an estimate with a different prior smoothed value
\* under a coefficient strictly between 0 and 1
C15_Witness ==
  /\ cycle.ran
  /\ cycle.freq # Null
  /\ cycle.prior # Null
  /\ cycle.prior # cycle.freq
  /\ Gt(options.smoothing, N(0))
  /\ Lt(options.smoothing, N(1))
  /\ Lt(Distance(emaFreq, cycle.freq), Distance(cycle.prior, cycle.freq))

\* C19: a query getAverageFrequency(w) with 0 < w <= max(1, averageSeconds),
\* made at or after the latest cycle, returns the mean of the present values
\* of all entries pushed in the current run with a timestamp at or after
\* now - w * 1000: no entry of the queried window has been evicted.
C19_WindowNotEvicted ==
  (/\ average.asked
   /\ Gt(average.seconds, N(0))
   /\ Le(average.seconds, Max(N(1), options.averageSeconds))) =>
    average.result = WindowMean(pushed, average.at, average.seconds)

\* a query within the bound, after an eviction, that returns a mean
C19_Witness ==
  /\ average.asked
  /\ Gt(average.seconds, N(0))
  /\ Le(average.seconds, Max(N(1), options.averageSeconds))
  /\ Len(history) < Len(pushed)
  /\ average.result # Null

\* absent, or finite and within [minFreq, maxFreq] of the options
WithinRange(x) ==
  \/ x = Null
  \/ /\ isFinite(x)
     /\ Ge(x, options.minFreq)
     /\ Le(x, options.maxFreq)

\* C20: the smoothed state, every value of a history entry, every value
\* passed to a listener and every result of getAverageFrequency() is absent
\* or a finite number within [minFreq, maxFreq].
C20_SmoothedInRange ==
  /\ WithinRange(emaFreq)
  /\ \A i \in 1..Len(history) : WithinRange(history[i].f)
  /\ cycle.ran => \A i \in 1..Len(cycle.calls) :
                    WithinRange(cycle.calls[i].freq)
  /\ average.asked => WithinRange(average.result)

\* a cycle that passes to a listener a value strictly between the prior
\* smoothed value and the estimate
C20_Witness ==
  /\ cycle.ran
  /\ cycle.calls # <<>>
  /\ cycle.prior # Null
  /\ cycle.freq # Null
  /\ emaFreq \notin {cycle.prior, cycle.freq}
  /\ cycle.calls[1].freq = emaFreq

====
